---- MODULE Spec2Model ----
(***************************************************************************)
(* A model of brew_builder.py: the BrewBuild recipe calculator, its        *)
(* interactive sheet, and pickling of a build.                             *)
(*                                                                         *)
(* Numbers.  The program computes with IEEE doubles (numpy float64).  The  *)
(* model computes with exact rationals <<n, d>>, d >= 0, in lowest terms.  *)
(* d = 0 gives the non-finite doubles: <<1, 0>> is inf, <<-1, 0>> is -inf  *)
(* and <<0, 0>> is nan, which is what numpy produces on a division by zero *)
(* (a RuntimeWarning, no exception).  Python's None is the empty tuple.    *)
(***************************************************************************)
EXTENDS Integers, Sequences, FiniteSets, TLC

None == <<>>

Abs(x) == IF x < 0 THEN -x ELSE x

Sign(x) == IF x < 0 THEN -1 ELSE IF x > 0 THEN 1 ELSE 0

RECURSIVE Gcd(_, _)
Gcd(a, b) == IF b = 0 THEN a ELSE Gcd(b, a % b)

\* the rational n/d in lowest terms with a non-negative denominator
Norm(n, d) ==
    IF d = 0 THEN <<Sign(n), 0>>
    ELSE LET g == Gcd(Abs(n), Abs(d))
             s == IF d < 0 THEN -1 ELSE 1
         IN  <<s * (n \div g), s * (d \div g)>>

Q(n) == <<n, 1>>

Inf == <<1, 0>>
NegInf == <<-1, 0>>
NaN == <<0, 0>>

IsNum(x) == x # None /\ x[2] # 0

RAdd(a, b) ==
    IF a[2] = 0 /\ b[2] = 0
    THEN (IF a[1] = b[1] THEN a ELSE NaN)
    ELSE Norm(a[1] * b[2] + b[1] * a[2], a[2] * b[2])

RNeg(a) == <<-a[1], a[2]>>

RSub(a, b) == RAdd(a, RNeg(b))

RMul(a, b) ==
    LET g1 == Gcd(Abs(a[1]), b[2])
        g2 == Gcd(Abs(b[1]), a[2])
    IN  IF a[2] = 0 \/ b[2] = 0
        THEN <<Sign(a[1]) * Sign(b[1]), 0>>
        ELSE Norm((a[1] \div g1) * (b[1] \div g2), (a[2] \div g2) * (b[2] \div g1))

RRecip(a) == Norm(a[2], a[1])

\* numpy's true division: x / 0 is inf, -inf or nan
RDiv(a, b) ==
    IF b[2] = 0 /\ a[2] = 0 THEN NaN
    ELSE IF b[1] = 0 THEN <<Sign(a[1]), 0>>
    ELSE RMul(a, RRecip(b))

\* a < b and a > b on doubles: every comparison with nan is false
RLt(a, b) ==
    IF a = NaN \/ b = NaN THEN FALSE
    ELSE IF a[2] = 0 /\ b[2] = 0 THEN a[1] < b[1]
    ELSE IF a[2] = 0 THEN a[1] < 0
    ELSE IF b[2] = 0 THEN b[1] > 0
    ELSE a[1] * b[2] < b[1] * a[2]

RGt(a, b) == RLt(b, a)

RLe(a, b) == a # NaN /\ b # NaN /\ ~RLt(b, a)

\* the integer nearest to n/d (d > 0), a tie going to the even one
RoundHalfEven(n, d) ==
    LET q == n \div d
        r == n % d
    IN  IF 2 * r < d THEN q
        ELSE IF 2 * r > d THEN q + 1
        ELSE IF q % 2 = 0 THEN q ELSE q + 1

RECURSIVE Pow10(_)
Pow10(k) == IF k = 0 THEN 1 ELSE 10 * Pow10(k - 1)

\* round(x, k) of a float64: to k decimals; inf and nan are returned as they are
RoundScaled(s, k) == Norm(RoundHalfEven(s[1], s[2]), Pow10(k))

Round(x, k) == IF x[2] = 0 THEN x ELSE RoundScaled(RMul(x, Q(Pow10(k))), k)

(***************************************************************************)
(* The outcome of a call: the value returned, or the exception raised.     *)
(***************************************************************************)
Ok(v) == [err |-> "ok", val |-> v]

Raise(e) == [err |-> e, val |-> None]

\* round(r, k) of a call's outcome; an exception passes through
RoundOk(r, k) == IF r.err # "ok" THEN r ELSE Ok(Round(r.val, k))

(***************************************************************************)
(* The reference store (the sqlite database behind self.con): the rows of  *)
(* the fermentable, hop, yeast and style tables, keyed by id.  An id       *)
(* outside a table's DOMAIN is an id the store does not know.              *)
(***************************************************************************)
FermentableTable ==
    1 :> [yield |-> Q(75), color |-> Q(2)] @@
    2 :> [yield |-> Q(80), color |-> Q(4)] @@
    3 :> [yield |-> Q(95), color |-> Q(3)]

HopTable == 1 :> [alpha |-> Q(5)] @@ 2 :> [alpha |-> Q(10)]

YeastTable == 1 :> [attenuation |-> Q(75)] @@ 2 :> [attenuation |-> Q(10)]

StyleTable ==
    1 :> [og_min |-> Norm(1040, 1000), og_max |-> Norm(1056, 1000),
          fg_min |-> Norm(1013, 1000), fg_max |-> Norm(1016, 1000),
          ibu_min |-> Q(10), ibu_max |-> Q(40),
          color_min |-> Q(2), color_max |-> Q(10),
          abv_min |-> Q(4), abv_max |-> Q(6)]

StyleId(k) == [id |-> k]

\* pd.read_sql_query of "SELECT * ... WHERE id = a or id = b ...": the rows
\* found (by id); an empty bill leaves the query text incomplete, which the
\* database rejects
\* ReadRows raising when an id of the bill is not in the table
ReadRowsNotFound(bill, table) ==
    IF Len(bill) = 0 THEN Raise("DatabaseError")
    ELSE IF \E i \in 1..Len(bill) : bill[i][1] \notin DOMAIN table THEN Raise("NotFound")
    ELSE Ok({bill[i][1] : i \in 1..Len(bill)})

ReadRows(bill, table) ==
    IF Len(bill) = 0 THEN Raise("DatabaseError")
    ELSE Ok({bill[i][1] : i \in 1..Len(bill)} \cap DOMAIN table)

\* the query for one id: the sequence of rows selected (none or one)
ReadRow(id, table) == IF id \in DOMAIN table THEN <<table[id]>> ELSE <<>>

\* column j of an (N,3) bill, Python's bill[:, j-1]
Column(bill, j) == [i \in 1..Len(bill) |-> bill[i][j]]

(***************************************************************************)
(* The calculations of BrewBuild.  self is the object as a record of its   *)
(* attributes; an argument left out of the call is None.                   *)
(***************************************************************************)
\* calc_GU with the extract's contribution scaled by the mash efficiency too
calc_GU_all_mashed(grain_amounts, grain_yield, mash_efficiency, grain_type, yeast_atten, yeast_atten_adj) ==
    LET base == RMul(RMul(grain_amounts, RDiv(grain_yield, Q(100))), Q(46))
        eff == RDiv(mash_efficiency, Q(100))
    IN  IF yeast_atten = None
        THEN RMul(base, eff)
        ELSE (IF grain_type = 0
              THEN RMul(RMul(base, eff), RDiv(yeast_atten_adj, Q(100)))
              ELSE RMul(base, RDiv(yeast_atten, Q(100))))

\* calc_GU with the extract's fermented contribution scaled by the adjusted
\* attenuation
calc_GU_extract_adjusted(grain_amounts, grain_yield, mash_efficiency, grain_type, yeast_atten, yeast_atten_adj) ==
    LET base == RMul(RMul(grain_amounts, RDiv(grain_yield, Q(100))), Q(46))
        eff == RDiv(mash_efficiency, Q(100))
    IN  IF yeast_atten = None
        THEN (IF grain_type = 0 THEN RMul(base, eff) ELSE base)
        ELSE (IF grain_type = 0
              THEN RMul(RMul(base, eff), RDiv(yeast_atten_adj, Q(100)))
              ELSE RMul(base, RDiv(yeast_atten_adj, Q(100))))

calc_GU(grain_amounts, grain_yield, mash_efficiency, grain_type, yeast_atten, yeast_atten_adj) ==
    LET base == RMul(RMul(grain_amounts, RDiv(grain_yield, Q(100))), Q(46))
        eff == RDiv(mash_efficiency, Q(100))
    IN  IF yeast_atten = None
        THEN (IF grain_type = 0 THEN RMul(base, eff) ELSE base)
        ELSE (IF grain_type = 0
              THEN RMul(RMul(base, eff), RDiv(yeast_atten_adj, Q(100)))
              ELSE RMul(base, RDiv(yeast_atten, Q(100))))

\* the IndexError of iteration i of a loop over the fermentables: no row i in
\* the bill or in the amounts, or .to_list()[0] on an id the lookup did not find
GrainIndexError(self, grain_amounts, i) ==
    \/ i > Len(self.grain_bill)
    \/ i > Len(grain_amounts)
    \/ self.grain_bill[i][1] \notin self.df_grain_bill

\* the loops "for i in range(n): GU += self.calc_GU(...)": the sum of the
\* first n contributions, or the IndexError of the first failing iteration
AddGU(prev, self, grain_amounts, mash_efficiency, yeast_atten, yeast_atten_adj, n) ==
    IF prev.err # "ok" THEN prev
    ELSE IF GrainIndexError(self, grain_amounts, n) THEN Raise("IndexError")
    ELSE Ok(RAdd(prev.val,
                 calc_GU(grain_amounts[n],
                         FermentableTable[self.grain_bill[n][1]].yield,
                         mash_efficiency, self.grain_bill[n][3],
                         yeast_atten, yeast_atten_adj)))

RECURSIVE SumGU(_, _, _, _, _, _)
SumGU(self, grain_amounts, mash_efficiency, yeast_atten, yeast_atten_adj, n) ==
    IF n = 0 THEN Ok(Q(0))
    ELSE AddGU(SumGU(self, grain_amounts, mash_efficiency, yeast_atten,
                     yeast_atten_adj, n - 1),
               self, grain_amounts, mash_efficiency, yeast_atten, yeast_atten_adj, n)

\* GravityOf without the division by the volume
GravityOfUndivided(sum, n, volume) ==
    IF n = 0 /\ volume = Q(0) THEN Raise("ZeroDivisionError")
    ELSE Ok(Round(RAdd(RDiv(sum, Q(1000)), Q(1)), 3))

\* gravity units per volume as a specific gravity, rounded to 3 decimals.  A
\* sum no iteration added to is still the int 0, and int / 0 raises
GravityOf(sum, n, volume) ==
    IF n = 0 /\ volume = Q(0) THEN Raise("ZeroDivisionError")
    ELSE Ok(Round(RAdd(RDiv(RDiv(sum, volume), Q(1000)), Q(1)), 3))

\* the same on the outcome of the loop
GravityOfSum(sum, n, volume) ==
    IF sum.err # "ok" THEN sum ELSE GravityOf(sum.val, n, volume)

calc_OG(self, grain_amounts, mash_efficiency, target_volume) ==
    LET dflt == grain_amounts = None
        ga == IF dflt THEN Column(self.grain_bill, 2) ELSE grain_amounts
        eff == IF dflt THEN self.mash_efficiency ELSE mash_efficiency
        tv == IF dflt THEN self.target_volume ELSE target_volume
    IN  GravityOfSum(SumGU(self, ga, eff, None, None, Len(ga)), Len(ga), tv)

\* calc_AA with no adjustment for the mash temperature
calc_AA_unadjusted(self, yeast_atten, mash_temp) ==
    LET dflt == yeast_atten = None
    IN  IF dflt /\ Len(self.df_yeast) = 0 THEN Raise("KeyError")
        ELSE Ok(IF dflt THEN self.df_yeast[1].attenuation ELSE yeast_atten)

calc_AA(self, yeast_atten, mash_temp) ==
    LET dflt == yeast_atten = None
    IN  IF dflt /\ Len(self.df_yeast) = 0 THEN Raise("KeyError")
        ELSE LET ya == IF dflt THEN self.df_yeast[1].attenuation ELSE yeast_atten
                 mt == IF dflt THEN self.mash_temp ELSE mash_temp
             IN  Ok(RSub(ya, RMul(RSub(mt, <<307, 2>>), <<5, 4>>)))

\* lines 397-401 of calc_FG, with the attenuated gravity units added
FinalGravityAdded(OG_GU, GU, n, target_volume) ==
    IF GU.err # "ok" THEN GU
    ELSE IF n = 0 /\ target_volume = Q(0) THEN Raise("ZeroDivisionError")
    ELSE Ok(Round(RAdd(RDiv(RAdd(OG_GU, RDiv(GU.val, target_volume)), Q(1000)), Q(1)), 3))

\* lines 394-401 of calc_FG: GU is the outcome of the loop over the
\* fermentables, the gravity units the yeast takes off
FinalGravity(OG_GU, GU, n, target_volume) ==
    IF GU.err # "ok" THEN GU
    ELSE IF n = 0 /\ target_volume = Q(0) THEN Raise("ZeroDivisionError")
    ELSE Ok(Round(RAdd(RDiv(RSub(OG_GU, RDiv(GU.val, target_volume)), Q(1000)), Q(1)), 3))

\* lines 384-393 of calc_FG: the loop, adj the outcome of calc_AA
Attenuated(self, adj, yeast_atten, grain_amounts, mash_efficiency) ==
    IF adj.err # "ok" THEN adj
    ELSE SumGU(self, grain_amounts, mash_efficiency, yeast_atten, adj.val, Len(self.grain_bill))

\* lines 377-401 of calc_FG, after the arguments are settled
FG_of(self, OG_GU, yeast_atten, mash_temp, grain_amounts, mash_efficiency, target_volume) ==
    FinalGravity(OG_GU,
                 Attenuated(self, calc_AA(self, yeast_atten, mash_temp), yeast_atten,
                            grain_amounts, mash_efficiency),
                 Len(self.grain_bill), target_volume)

\* the outcome r of a method, and the object after the call
WithSelf(r, self) == [err |-> r.err, val |-> r.val, self |-> self]

\* what the caller of a method gets
Returned(r) == [err |-> r.err, val |-> r.val]

\* lines 368-373 of calc_FG, self.OG being set
FG_cached(self) ==
    IF Len(self.df_yeast) = 0 THEN WithSelf(Raise("KeyError"), self)
    ELSE WithSelf(FG_of(self, RMul(RSub(self.OG, Q(1)), Q(1000)),
                        self.df_yeast[1].attenuation, self.mash_temp,
                        Column(self.grain_bill, 2), self.mash_efficiency,
                        self.target_volume),
                  self)

\* lines 366-367 of calc_FG: og is the outcome of the calc_OG() that fills an
\* empty self.OG
FG_default(self, og) ==
    IF og.err # "ok" THEN WithSelf(og, self)
    ELSE FG_cached([self EXCEPT !.OG = og.val])

\* calc_FG returns [err, val, self]: without an OG argument it takes self.OG,
\* which it computes and stores only when self.OG is still None
calc_FG(self, OG, yeast_atten, mash_temp, grain_amounts, mash_efficiency, target_volume) ==
    IF OG = None
    THEN FG_default(self, IF self.OG = None THEN calc_OG(self, None, None, None)
                          ELSE Ok(self.OG))
    ELSE WithSelf(FG_of(self, RMul(RSub(OG, Q(1)), Q(1000)), yeast_atten,
                        mash_temp, grain_amounts, mash_efficiency, target_volume),
                  self)

calc_ABV(OG, FG) == Round(RMul(RSub(OG, FG), <<525, 4>>), 2)

(***************************************************************************)
(* Powers.  x ** 0.6859, 0.000125 ** x and np.exp have no exact rational   *)
(* value; the model computes them in fixed point.                          *)
(***************************************************************************)
\* SRMThresholds[k] / 10000 is the MCU at which 1.4922 * MCU ** 0.6859 reaches
\* (k - 0.5) / 10, so that round(SRM, 1) is the number of thresholds <= MCU
SRMThresholds ==
    <<71, 351, 739, 1207, 1742, 2334, 2977, 3668, 4402, 5177, 5991, 6840,
      7724, 8642, 9590, 10570, 11578, 12616, 13680, 14771, 15889, 17031,
      18198, 19389, 20604, 21841, 23101, 24383, 25687, 27011, 28356, 29722,
      31108, 32513, 33937, 35381, 36843, 38324, 39823, 41340, 42875, 44427,
      45996, 47583, 49186, 50806, 52442, 54094, 55762, 57446, 59146, 60861,
      62592, 64338, 66099, 67874, 69664, 71469, 73289, 75122, 76970, 78832,
      80708, 82597, 84500, 86417, 88347, 90291, 92248, 94218, 96201, 98197,
      100205, 102227, 104261, 106307, 108366, 110438, 112522, 114617,
      116725, 118845, 120977, 123121, 125277, 127444, 129623, 131814,
      134016, 136229, 138454, 140690, 142937, 145196, 147466, 149746,
      152038, 154340, 156653, 158977, 161312, 163658, 166014, 168380,
      170757, 173145, 175543, 177951, 180370, 182799, 185237, 187687,
      190146, 192615, 195094, 197583, 200082, 202591, 205110, 207638>>

\* round(1.4922 * (MCU ** 0.6859), 1); numpy's power of a negative double is nan.
\* An MCU past the last threshold is outside the table (TLC stops with an error)
SRM(MCU) ==
    IF MCU = NaN THEN NaN
    ELSE IF MCU[2] = 0 THEN Inf
    ELSE IF MCU[1] < 0 THEN NaN
    ELSE LET N == Len(SRMThresholds)
             reached == {k \in 1..N : SRMThresholds[k] * MCU[2] <= MCU[1] * 10000}
         IN  IF N \in reached THEN Q(SRMThresholds[N + 1])
             ELSE Norm(Cardinality(reached), 10)

PowScale == 40000

\* 0.000125 ** (2 ** (j-1) / 1000) and exp(-0.04 * 2 ** (j-1)), times PowScale
GravityPowers == <<39642, 39287, 38588, 37225, 34643, 30003, 22504, 12661, 4007>>

TimePowers == <<38432, 36925, 34086, 29046, 21092, 11121, 3092, 239>>

\* base ** k times PowScale, for a natural k, by the binary digits of k
RECURSIVE PowFix(_, _, _)
PowFix(tab, k, j) ==
    IF k = 0 THEN PowScale
    ELSE IF k % 2 = 1
    THEN (PowFix(tab, k \div 2, j + 1) * tab[j] + PowScale \div 2) \div PowScale
    ELSE PowFix(tab, k \div 2, j + 1)

\* the natural number a rational is (TLC stops with an error if it is none)
AsInt(x) == IF x[2] = 1 THEN x[1] ELSE x[3]

\* 1.65 * 0.000125 ** (k / 1000), to 4 decimals
HopfGOf(k) ==
    IF k >= 0 THEN Round(Norm(165 * PowFix(GravityPowers, k, 1), 100 * PowScale), 4)
    ELSE Round(Norm(165 * PowScale, 100 * PowFix(GravityPowers, -k, 1)), 4)

\* fG = 1.65 * 0.000125 ** (BG - 1), to 4 decimals.  BG is a gravity rounded to
\* 3 decimals, so (BG - 1) * 1000 is an integer
HopfG(BG) ==
    IF BG = NaN THEN NaN
    ELSE IF BG = Inf THEN Q(0)
    ELSE IF BG = NegInf THEN Inf
    ELSE HopfGOf(AsInt(RMul(RSub(BG, Q(1)), Q(1000))))

\* fT = (1 - np.exp(-0.04 * hop_times)) / 4.15, to 4 decimals, for a boil time
\* of a whole number of minutes
HopfT(hop_times) ==
    Round(Norm((PowScale - PowFix(TimePowers, AsInt(hop_times), 1)) * 100,
               PowScale * 415), 4)

\* lines 431-432 of calc_color on the outcome of the loop
SRMOf(MCU) == IF MCU.err # "ok" THEN MCU ELSE Ok(SRM(MCU.val))

calc_color(self, grain_amounts, target_volume) ==
    LET dflt == target_volume = None
        ga == IF dflt THEN Column(self.grain_bill, 2) ELSE grain_amounts
        tv == IF dflt THEN self.target_volume ELSE target_volume
        n == Len(self.grain_bill)
        MCU[i \in 0..n] ==
            IF i = 0 THEN Ok(Q(0))
            ELSE IF MCU[i - 1].err # "ok" THEN MCU[i - 1]
            ELSE IF GrainIndexError(self, ga, i) THEN Raise("IndexError")
            ELSE Ok(RAdd(MCU[i - 1].val,
                         RDiv(RMul(ga[i], FermentableTable[self.grain_bill[i][1]].color),
                              tv)))
    IN  SRMOf(MCU[n])

calc_BG(self, grain_amounts, mash_efficiency, boil_volume) ==
    LET dflt == grain_amounts = None
        ga == IF dflt THEN Column(self.grain_bill, 2) ELSE grain_amounts
        eff == IF dflt THEN self.mash_efficiency ELSE mash_efficiency
        bv == IF dflt THEN self.boil_volume ELSE boil_volume
        n == Len(self.grain_bill)
    IN  GravityOfSum(SumGU(self, ga, eff, None, None, n), n, bv)

\* the IBU contribution of one hop addition, kept to 3 decimals
est_hop_IBU(BG, hop_times, hop_amounts, alpha, target_volume) ==
    IF BG = None THEN Raise("TypeError")
    ELSE LET fG == HopfG(BG)
             fT == HopfT(hop_times)
             U == Round(RMul(fG, fT), 5)
             C_grav == RAdd(Q(1), RDiv(RSub(BG, <<105, 100>>), <<2, 10>>))
             bitter == RMul(RMul(hop_amounts, RDiv(alpha, Q(100))),
                            Round(RMul(U, Q(7489)), 2))
         IN  Ok(Round(RDiv(bitter, RMul(target_volume, C_grav)), 3))

\* lines 494-500 of calc_IBU, bg the outcome of calc_BG
SumIBU(self, bg, ht, ha, tv) ==
    LET n == Len(self.hop_bill)
        BG == bg.val
        IBU[i \in 0..n] ==
            IF i = 0 THEN Ok(Q(0))
            ELSE IF IBU[i - 1].err # "ok" THEN IBU[i - 1]
            ELSE IF \/ self.hop_bill[i][1] \notin self.df_hop_bill
                    \/ i > Len(ht) \/ i > Len(ha)
            THEN Raise("IndexError")
            ELSE Ok(RAdd(IBU[i - 1].val,
                         est_hop_IBU(BG, ht[i], ha[i],
                                     HopTable[self.hop_bill[i][1]].alpha, tv).val))
    IN  IF bg.err # "ok" THEN bg ELSE RoundOk(IBU[n], 1)

calc_IBU(self, hop_times, hop_amounts, grain_amounts, mash_efficiency, boil_volume, target_volume) ==
    LET dflt == hop_times = None
        ht == IF dflt THEN Column(self.hop_bill, 3) ELSE hop_times
        ha == IF dflt THEN Column(self.hop_bill, 2) ELSE hop_amounts
        ga == IF dflt THEN Column(self.grain_bill, 2) ELSE grain_amounts
        eff == IF dflt THEN self.mash_efficiency ELSE mash_efficiency
        bv == IF dflt THEN self.boil_volume ELSE boil_volume
        tv == IF dflt THEN self.target_volume ELSE target_volume
    IN  SumIBU(self, calc_BG(self, ga, eff, bv), ht, ha, tv)

\* lines 523-527 of calc_mash_grav: 0.125 gal of the mash volume is lost per lb
MashGravityOf(acc, mv) ==
    IF acc.err # "ok" THEN Raise(acc.err)
    ELSE GravityOf(acc.MG_GU, acc.added, RSub(mv, RMul(<<125, 1000>>, acc.weight)))

\* calc_mash_grav sums the mash-role fermentables only, and their weight
calc_mash_grav(self, grain_amounts, mash_efficiency, mash_volume) ==
    LET dflt == grain_amounts = None
        ga == IF dflt THEN Column(self.grain_bill, 2) ELSE grain_amounts
        eff == IF dflt THEN self.mash_efficiency ELSE mash_efficiency
        mv == IF dflt THEN self.mash_volume ELSE mash_volume
        n == Len(self.grain_bill)
        acc[j \in 0..n] ==
            IF j = 0 THEN [err |-> "ok", MG_GU |-> Q(0), weight |-> Q(0), added |-> 0]
            ELSE IF acc[j - 1].err # "ok" THEN acc[j - 1]
            ELSE IF self.grain_bill[j][1] \notin self.df_grain_bill
            THEN [acc[j - 1] EXCEPT !.err = "IndexError"]
            ELSE IF self.grain_bill[j][3] # 0 THEN acc[j - 1]
            ELSE IF j > Len(ga) THEN [acc[j - 1] EXCEPT !.err = "IndexError"]
            ELSE [err |-> "ok",
                  MG_GU |-> RAdd(acc[j - 1].MG_GU,
                                 calc_GU(ga[j],
                                         FermentableTable[self.grain_bill[j][1]].yield,
                                         eff, 0, None, None)),
                  weight |-> RAdd(acc[j - 1].weight, ga[j]),
                  added |-> acc[j - 1].added + 1]
    IN  MashGravityOf(acc[n], mv)

calc_PB_volume(self, boil_volume, boil_time) ==
    LET dflt == boil_volume = None
        bv == IF dflt THEN self.boil_volume ELSE boil_volume
        bt == IF dflt THEN self.boil_time ELSE boil_time
    IN  RSub(bv, RDiv(RMul(<<75, 100>>, bt), Q(60)))

calc_PB_grav(self, BG, boil_volume, boil_time) ==
    LET dflt == BG = None
        bg == IF dflt THEN self.BG ELSE BG
        bv == IF dflt THEN self.boil_volume ELSE boil_volume
        bt == IF dflt THEN self.boil_time ELSE boil_time
    IN  IF bg = None THEN Raise("TypeError")
        ELSE Ok(Round(RAdd(RDiv(RDiv(RMul(RMul(RSub(bg, Q(1)), Q(1000)), bv),
                                     calc_PB_volume(self, bv, bt)),
                                Q(1000)), Q(1)), 3))

(***************************************************************************)
(* The BrewBuild object.                                                   *)
(***************************************************************************)
\* __init__: the attributes after construction, or the database's error.
\* df_grain_bill and df_hop_bill are the ids of the rows found, df_yeast and
\* df_style the rows found; df_style is None (no such attribute) without a style
BrewBuild(grain_bill, hop_bill, yeast, target_volume, boil_volume, mash_temp, boil_time, mash_efficiency, style, mash_volume) ==
    LET g == ReadRows(grain_bill, FermentableTable)
        h == ReadRows(hop_bill, HopTable)
    IN  IF g.err # "ok" THEN g
        ELSE IF h.err # "ok" THEN h
        ELSE Ok([grain_bill |-> grain_bill, hop_bill |-> hop_bill, yeast |-> yeast,
                 target_volume |-> target_volume, boil_volume |-> boil_volume,
                 mash_temp |-> mash_temp, boil_time |-> boil_time,
                 mash_efficiency |-> mash_efficiency, style |-> style,
                 mash_volume |-> mash_volume,
                 OG |-> None, FG |-> None, color |-> None, IBU |-> None, ABV |-> None,
                 df_grain_bill |-> g.val,
                 df_yeast |-> ReadRow(yeast, YeastTable),
                 df_hop_bill |-> h.val,
                 df_style |-> IF style = None THEN None ELSE ReadRow(style.id, StyleTable),
                 MG |-> None, BG |-> None, PB |-> None, PB_volume |-> None])

\* the csv before build_recipe writes a line of it
NoCsv == [ranges |-> {}, flags |-> {}, complete |-> FALSE]

\* OutOfRange with a value on a bound out of range too
OutOfRangeInclusive(value, lo, hi) == ~RGt(value, lo) \/ ~RLt(value, hi)

\* the style range and the 'X' of one metric (template lines 7-10 and 12)
OutOfRange(value, lo, hi) == RLt(value, lo) \/ RGt(value, hi)

StyleFlags(self) ==
    LET st == self.df_style[1]
    IN  (IF OutOfRange(self.OG, st.og_min, st.og_max) THEN {"OG"} ELSE {}) \cup
        (IF OutOfRange(self.FG, st.fg_min, st.fg_max) THEN {"FG"} ELSE {}) \cup
        (IF OutOfRange(self.IBU, st.ibu_min, st.ibu_max) THEN {"IBU"} ELSE {}) \cup
        (IF OutOfRange(self.color, st.color_min, st.color_max) THEN {"color"} ELSE {}) \cup
        (IF OutOfRange(self.ABV, st.abv_min, st.abv_max) THEN {"ABV"} ELSE {})

Metrics == {"OG", "FG", "IBU", "color", "ABV"}

\* the first exception of a statement and of the statements after it
FirstError(e, rest) == IF e # "ok" THEN e ELSE rest

\* int(round(gu, 0)): int() of inf is an OverflowError, of nan a ValueError
IntError(gu) ==
    IF gu = NaN THEN "ValueError" ELSE IF gu[2] = 0 THEN "OverflowError" ELSE "ok"

\* the row of fermentable j (build_recipe lines 620-631, interactive_sheet
\* lines 694-706): .to_list()[0] is an IndexError on an id the lookup did not
\* find, then int(round(OG_GU / self.target_volume, 0))
RowError(self, j) ==
    IF self.grain_bill[j][1] \notin self.df_grain_bill THEN "IndexError"
    ELSE IntError(RDiv(calc_GU(self.grain_bill[j][2],
                               FermentableTable[self.grain_bill[j][1]].yield,
                               self.mash_efficiency, self.grain_bill[j][3],
                               None, None),
                       self.target_volume))

RECURSIVE RowsError(_, _)
RowsError(self, j) ==
    IF j > Len(self.grain_bill) THEN "ok"
    ELSE FirstError(RowError(self, j), RowsError(self, j + 1))

\* build_recipe at a statement, c = [self, err, trace, csv]: the statement
\* raises e
Fail(c, e) == [c EXCEPT !.err = e]

\* the statement leaves the object self1, having computed names
Done(c, self1, names) == [c EXCEPT !.self = self1, !.trace = c.trace \o names]

\* self.attr = r, r the outcome of a calculation
Keep(c, r, attr, names) ==
    IF r.err # "ok" THEN Fail(c, r.err)
    ELSE Done(c, [c.self EXCEPT ![attr] = r.val], names)

\* self.FG = self.calc_FG(): the call leaves its own mark on the object
KeepFG(c, r) ==
    IF r.err # "ok" THEN [c EXCEPT !.err = r.err, !.self = r.self]
    ELSE Done(c, [r.self EXCEPT !.FG = r.val], <<"AA", "FG">>)

\* a statement that only can raise
FailIf(c, e) == IF c.err = "ok" /\ e # "ok" THEN Fail(c, e) ELSE c

\* One step of build_recipe on c = [self, err, trace, csv]: the statement that
\* computes the named quantity.  trace lists what has been computed, in order.
BuildStep(name, c) ==
    CASE name = "OG" -> Keep(c, calc_OG(c.self, None, None, None), "OG", <<"OG">>)
      [] name = "FG" ->
           KeepFG(c, calc_FG(c.self, None, None, None, None, None, None))
      [] name = "color" -> Keep(c, calc_color(c.self, None, None), "color", <<"color">>)
      [] name = "IBU" ->
           Keep(c, calc_IBU(c.self, None, None, None, None, None, None), "IBU",
                <<"IBU">>)
      [] name = "ABV" ->
           Keep(c, IF c.self.OG = None \/ c.self.FG = None THEN Raise("TypeError")
                   ELSE Ok(calc_ABV(c.self.OG, c.self.FG)),
                "ABV", <<"ABV">>)
      [] name = "BG" -> Keep(c, calc_BG(c.self, None, None, None), "BG", <<"BG">>)
      [] name = "open" -> [c EXCEPT !.csv = NoCsv]
      [] name = "rows" ->
           FailIf(FailIf(c, RowsError(c.self, 1)), calc_AA(c.self, None, None).err)
      [] name = "style" ->
           IF c.self.style = None THEN c
           ELSE IF Len(c.self.df_style) = 0 THEN Fail(c, "KeyError")
           ELSE [c EXCEPT !.csv.ranges = Metrics, !.csv.flags = StyleFlags(c.self)]
      [] name = "MG" ->
           Keep(c, RoundOk(calc_mash_grav(c.self, None, None, None), 3), "MG", <<"MG">>)
      [] name = "PB_volume" ->
           Keep(c, Ok(calc_PB_volume(c.self, None, None)), "PB_volume",
                <<"PB_volume">>)
      [] name = "PB" -> Keep(c, calc_PB_grav(c.self, None, None, None), "PB", <<"PB">>)

\* the statements of build_recipe in program order: lines 558-566, then the
\* output file is opened (and emptied) and the template's lines are filled in:
\* the bills' rows (from line 3), the style columns (lines 7-12) and the
\* brew-day values (lines 18-21).  Bills of fewer than five rows are over
\* before the style columns begin.
\* the statements with the boil gravity and the brew-day values first
BuildOrderBrewDayFirst ==
    <<"BG", "MG", "PB_volume", "PB", "OG", "FG", "ABV", "color", "IBU", "open",
      "rows", "style">>

\* the statements with self.FG = self.calc_FG() before self.OG = self.calc_OG()
BuildOrderFGFirst ==
    <<"FG", "OG", "color", "IBU", "ABV", "BG", "open", "rows", "style", "MG",
      "PB_volume", "PB">>

BuildOrder ==
    <<"OG", "FG", "color", "IBU", "ABV", "BG", "open", "rows", "style", "MG",
      "PB_volume", "PB">>

RECURSIVE RunSteps(_, _, _)
RunSteps(c, order, i) ==
    IF i > Len(order) \/ c.err # "ok" THEN c
    ELSE RunSteps(BuildStep(order[i], c), order, i + 1)

\* the file is complete when the last statement has run
Closed(c) == IF c.err = "ok" THEN [c EXCEPT !.csv.complete = TRUE] ELSE c

\* build_recipe(name), the file name holding csv0 before the call:
\* [self, err, trace, csv] when it returns or raises
build_recipe(self, csv0) ==
    Closed(RunSteps([self |-> self, err |-> "ok", trace |-> <<>>, csv |-> csv0],
                    BuildOrder, 1))

\* the statements of build_recipe before the with statement that opens the
\* template and the output file: lines 558-566
Calculations == SubSeq(BuildOrder, 1, 6)

\* open(name, 'w') raises: the directory of name does not exist
NoFile(c) == IF c.err # "ok" THEN c ELSE Fail(c, "FileNotFoundError")

\* build_recipe(name) with a name that cannot be opened for writing: the
\* calculations run, the with statement raises, and the file csv0 of an
\* earlier call stays as it is
build_recipe_no_file(self, csv0) ==
    NoFile(RunSteps([self |-> self, err |-> "ok", trace |-> <<>>, csv |-> csv0],
                    Calculations, 1))

\* pickle_build(name): the dictionary written to the file
pickle_build(self) ==
    [grain_bill |-> self.grain_bill, hop_bill |-> self.hop_bill, yeast |-> self.yeast,
     target_volume |-> self.target_volume, boil_volume |-> self.boil_volume,
     mash_temp |-> self.mash_temp, boil_time |-> self.boil_time,
     mash_efficiency |-> self.mash_efficiency, style |-> self.style,
     mash_volume |-> self.mash_volume]

\* build_from_pickle(name, con): the outcome of the constructor on the file's
\* entries
build_from_pickle(build) ==
    BrewBuild(build.grain_bill, build.hop_bill, build.yeast, build.target_volume,
              build.boil_volume, build.mash_temp, build.boil_time,
              build.mash_efficiency, build.style, build.mash_volume)

(***************************************************************************)
(* The interactive sheet.  A sheet is the record of its cells' values: the *)
(* yellow (editable) cells and the red (calculated) ones.                  *)
(***************************************************************************)
EditableCells ==
    {"target_volume", "boil_volume", "boil_time", "mash_temp", "mash_efficiency",
     "mash_volume", "yeast_atten"}

\* the values of the cells in the inputs=[...] list of the @calculation that
\* fills the cell out, in the list's order
CellArgs(s, out) ==
    CASE out = "mash_grav" -> s.ferms \o <<s.mash_efficiency, s.mash_volume>>
      [] out = "BG" -> s.ferms \o <<s.mash_efficiency, s.boil_volume>>
      [] out = "PB_volume" -> <<s.boil_volume, s.boil_time>>
      [] out = "PB_grav" -> <<s.BG, s.boil_volume, s.boil_time>>
      [] out = "ABV" -> <<s.OG, s.FG>>
      [] out = "OG" -> s.ferms \o <<s.mash_efficiency, s.target_volume>>
      [] out = "yeast_atten_adj" -> <<s.yeast_atten, s.mash_temp>>
      [] out = "FG" ->
           s.ferms \o <<s.yeast_atten, s.mash_efficiency, s.target_volume,
                        s.mash_temp, s.OG>>
      [] out = "IBU" ->
           s.ams \o s.times \o s.ferms
             \o <<s.mash_efficiency, s.boil_volume, s.target_volume>>
      [] out = "color" -> s.ferms \o <<s.target_volume>>

\* Python's args[a:b], for 0 <= a and b <= len(args)
Slice(args, a, b) == SubSeq(args, a + 1, b)

\* Callback with the hop times taken from the front of the arguments and the
\* hop amounts after them
CallbackTimesFirst(self, out, args) ==
    LET m == Len(args)
        n == Len(self.hop_bill)
    IN  CASE out = "mash_grav" ->
               calc_mash_grav(self, Slice(args, 0, m - 2), args[m - 1], args[m])
          [] out = "BG" -> calc_BG(self, Slice(args, 0, m - 2), args[m - 1], args[m])
          [] out = "PB_volume" -> Ok(calc_PB_volume(self, args[1], args[2]))
          [] out = "PB_grav" -> calc_PB_grav(self, args[1], args[2], args[3])
          [] out = "ABV" ->
               IF args[1] = None \/ args[2] = None THEN Raise("TypeError")
               ELSE Ok(calc_ABV(args[1], args[2]))
          [] out = "OG" -> calc_OG(self, Slice(args, 0, m - 2), args[m - 1], args[m])
          [] out = "yeast_atten_adj" -> calc_AA(self, args[1], args[2])
          [] out = "FG" ->
               Returned(calc_FG(self, args[m], args[m - 4], args[m - 1],
                                Slice(args, 0, m - 5), args[m - 3], args[m - 2]))
          [] out = "IBU" ->
               calc_IBU(self, Slice(args, 0, n), Slice(args, n, 2 * n),
                        Slice(args, 2 * n, m - 3), args[m - 2], args[m - 1], args[m])
          [] out = "color" -> calc_color(self, Slice(args, 0, m - 1), args[m])

\* the function under each @calculation, called with the values args of its
\* inputs: how it slices them into the calculation's explicit arguments
Callback(self, out, args) ==
    LET m == Len(args)
        n == Len(self.hop_bill)
    IN  CASE out = "mash_grav" ->
               calc_mash_grav(self, Slice(args, 0, m - 2), args[m - 1], args[m])
          [] out = "BG" -> calc_BG(self, Slice(args, 0, m - 2), args[m - 1], args[m])
          [] out = "PB_volume" -> Ok(calc_PB_volume(self, args[1], args[2]))
          [] out = "PB_grav" -> calc_PB_grav(self, args[1], args[2], args[3])
          [] out = "ABV" ->
               IF args[1] = None \/ args[2] = None THEN Raise("TypeError")
               ELSE Ok(calc_ABV(args[1], args[2]))
          [] out = "OG" -> calc_OG(self, Slice(args, 0, m - 2), args[m - 1], args[m])
          [] out = "yeast_atten_adj" -> calc_AA(self, args[1], args[2])
          [] out = "FG" ->
               Returned(calc_FG(self, args[m], args[m - 4], args[m - 1],
                                Slice(args, 0, m - 5), args[m - 3], args[m - 2]))
          [] out = "IBU" ->
               calc_IBU(self, Slice(args, n, 2 * n), Slice(args, 0, n),
                        Slice(args, 2 * n, m - 3), args[m - 2], args[m - 1], args[m])
          [] out = "color" -> calc_color(self, Slice(args, 0, m - 1), args[m])

\* the @calculation functions: each output cell from the sheet's input cells,
\* through the calculation's explicit arguments
CellCalc(self, s, out) == Callback(self, out, CellArgs(s, out))

\* the @calculation functions, by the cell each fills, in the order
\* interactive_sheet registers them
Registered ==
    <<"mash_grav", "BG", "PB_volume", "PB_grav", "ABV", "OG", "yeast_atten_adj", "FG",
      "IBU", "color">>

\* the cells of the inputs=[...] list of the calculation that fills out: the
\* cells it observes
InputCells(out) ==
    CASE out = "mash_grav" -> {"ferms", "mash_efficiency", "mash_volume"}
      [] out = "BG" -> {"ferms", "mash_efficiency", "boil_volume"}
      [] out = "PB_volume" -> {"boil_volume", "boil_time"}
      [] out = "PB_grav" -> {"BG", "boil_volume", "boil_time"}
      [] out = "ABV" -> {"OG", "FG"}
      [] out = "OG" -> {"ferms", "mash_efficiency", "target_volume"}
      [] out = "yeast_atten_adj" -> {"yeast_atten", "mash_temp"}
      [] out = "FG" ->
           {"ferms", "yeast_atten", "mash_efficiency", "target_volume", "mash_temp", "OG"}
      [] out = "IBU" ->
           {"ams", "times", "ferms", "mash_efficiency", "boil_volume", "target_volume"}
      [] out = "color" -> {"ferms", "target_volume"}

RECURSIVE Notify(_, _, _, _, _)
\* Stored without the notification of the cell's observers
StoredSilently(self, s, k, limit, r) ==
    IF r.err # "ok" THEN [err |-> r.err, val |-> s]
    ELSE Ok([s EXCEPT ![Registered[k]] = r.val])

\* calculation k has returned r: output.value = r.  A value that differs from
\* the cell's (nan differs from nan) notifies the cell's observers before the
\* assignment returns; an exception leaves the cell as it was
Stored(self, s, k, limit, r) ==
    IF r.err # "ok" THEN [err |-> r.err, val |-> s]
    ELSE IF r.val = s[Registered[k]] /\ r.val # NaN THEN Ok(s)
    ELSE Notify(self, Ok([s EXCEPT ![Registered[k]] = r.val]), Registered[k], 1, limit)

\* calculation k runs on the current values of its input cells
RunCalc(self, s, k, limit) == Stored(self, s, k, limit, CellCalc(self, s, Registered[k]))

\* the value of cell has changed: the calculations that observe it, of the
\* first limit registered, run one after another from the j-th on; r is
\* [err, val |-> the sheet] and the first exception ends the run
Notify(self, r, cell, j, limit) ==
    IF r.err # "ok" \/ j > limit THEN r
    ELSE Notify(self,
                IF cell \in InputCells(Registered[j]) THEN RunCalc(self, r.val, j, limit)
                ELSE r,
                cell, j + 1, limit)

\* the decorators from the k-th on: each registers its calculation as an
\* observer of its inputs and runs it once
RECURSIVE Register(_, _, _)
Register(self, r, k) ==
    IF r.err # "ok" \/ k > Len(Registered) THEN r
    ELSE Register(self, RunCalc(self, r.val, k, k), k + 1)

\* the 'X' cells of the style checks
SheetChecks(self, s) ==
    LET st == self.df_style[1]
    IN  (IF OutOfRange(s.OG, st.og_min, st.og_max) THEN {"OG"} ELSE {}) \cup
        (IF OutOfRange(s.FG, st.fg_min, st.fg_max) THEN {"FG"} ELSE {}) \cup
        (IF OutOfRange(s.IBU, st.ibu_min, st.ibu_max) THEN {"IBU"} ELSE {}) \cup
        (IF OutOfRange(s.color, st.color_min, st.color_max) THEN {"color"} ELSE {}) \cup
        (IF OutOfRange(s.ABV, st.abv_min, st.abv_max) THEN {"ABV"} ELSE {})

\* the cells as interactive_sheet first fills them, before a calculation runs
FirstCells(self) ==
    [ferms |-> Column(self.grain_bill, 2),
     ams |-> Column(self.hop_bill, 2), times |-> Column(self.hop_bill, 3),
     yeast_atten |-> self.df_yeast[1].attenuation,
     yeast_atten_adj |-> calc_AA(self, None, None).val,
     target_volume |-> self.target_volume, boil_volume |-> self.boil_volume,
     boil_time |-> self.boil_time, mash_temp |-> self.mash_temp,
     OG |-> self.OG, FG |-> self.FG, IBU |-> self.IBU, color |-> self.color,
     mash_efficiency |-> self.mash_efficiency, ABV |-> self.ABV,
     mash_volume |-> self.mash_volume,
     mash_grav |-> None, BG |-> None, PB_volume |-> None, PB_grav |-> None,
     ranges |-> {}, checks |-> {}]

\* SheetError with the hops' cells reading self.PB, which only a build_recipe
\* that ran to its end assigns
SheetErrorNeedsPB(self) ==
    LET unknownHop(j) == self.hop_bill[j][1] \notin self.df_hop_bill
    IN  FirstError(RowsError(self, 1),
          IF unknownHop(1) THEN "IndexError"
          ELSE IF self.PB = None THEN "TypeError"
          ELSE IF \E j \in 1..Len(self.hop_bill) : unknownHop(j) THEN "IndexError"
          ELSE IF Len(self.df_yeast) = 0 THEN "KeyError"
          ELSE FirstError(calc_mash_grav(self, None, None, None).err,
                 IF self.style = None THEN "AttributeError"
                 ELSE IF Len(self.df_style) = 0 THEN "KeyError"
                 ELSE IF self.OG = None \/ self.FG = None \/ self.IBU = None
                         \/ self.color = None \/ self.ABV = None
                 THEN "TypeError"
                 ELSE "ok"))

\* the first exception of interactive_sheet before its calculations run: the
\* fermentables' cells (lines 693-707), the hops' cells (711-723), the yeast's
\* (725-729), the mash gravity (745-750), the style cells (780-820)
SheetError(self) ==
    LET unknownHop(j) == self.hop_bill[j][1] \notin self.df_hop_bill
    IN  FirstError(RowsError(self, 1),
          IF unknownHop(1) THEN "IndexError"
          ELSE IF self.BG = None THEN "TypeError"
          ELSE IF \E j \in 1..Len(self.hop_bill) : unknownHop(j) THEN "IndexError"
          ELSE IF Len(self.df_yeast) = 0 THEN "KeyError"
          ELSE FirstError(calc_mash_grav(self, None, None, None).err,
                 IF self.style = None THEN "AttributeError"
                 ELSE IF Len(self.df_style) = 0 THEN "KeyError"
                 ELSE IF self.OG = None \/ self.FG = None \/ self.IBU = None
                         \/ self.color = None \/ self.ABV = None
                 THEN "TypeError"
                 ELSE "ok"))

\* the style ranges and checks on the calculated sheet
Styled(self, calculated) ==
    IF calculated.err # "ok" THEN Raise(calculated.err)
    ELSE Ok([calculated.val EXCEPT !.ranges = Metrics,
                                   !.checks = SheetChecks(self, calculated.val)])

SheetAfter(self, e) ==
    IF e # "ok" THEN Raise(e) ELSE Styled(self, Register(self, Ok(FirstCells(self)), 1))

\* interactive_sheet(): the sheet returned, or the first exception on the way
interactive_sheet(self) == SheetAfter(self, SheetError(self))

Checked(self, s) == [s EXCEPT !.checks = SheetChecks(self, s)]

\* a new value in an editable cell of the sheet, and the calculations it sets
\* off.  name is an editable cell, or "ferms", "ams" or "times" with the row i
EditCell(self, s, name, i, value) ==
    Notify(self,
           Ok(IF name \in {"ferms", "ams", "times"} THEN [s EXCEPT ![name][i] = value]
              ELSE [s EXCEPT ![name] = value]),
           name, 1, Len(Registered))

\* TakeFromSheet with the hop rows stored in the reverse order
TakeFromSheetReversed(self, s) ==
    [self EXCEPT
       !.target_volume = s.target_volume,
       !.boil_volume = s.boil_volume,
       !.boil_time = s.boil_time,
       !.mash_temp = s.mash_temp,
       !.mash_efficiency = s.mash_efficiency,
       !.grain_bill = [i \in 1..Len(self.grain_bill) |->
                          <<self.grain_bill[i][1], s.ferms[i], self.grain_bill[i][3]>>],
       !.hop_bill = [i \in 1..Len(self.hop_bill) |->
                        <<self.hop_bill[Len(self.hop_bill) + 1 - i][1],
                          s.ams[Len(self.hop_bill) + 1 - i],
                          s.times[Len(self.hop_bill) + 1 - i]>>],
       !.df_yeast = IF Len(self.df_yeast) = 0
                    THEN <<[attenuation |-> s.yeast_atten]>>
                    ELSE [self.df_yeast EXCEPT ![1].attenuation = s.yeast_atten]]

\* the loop over sheet1.cells of update_recipe_from_sheet (lines 892-919): the
\* cells it reads, by row and column, and the attribute each is stored in
TakeFromSheet(self, s) ==
    [self EXCEPT
       !.target_volume = s.target_volume,
       !.boil_volume = s.boil_volume,
       !.boil_time = s.boil_time,
       !.mash_temp = s.mash_temp,
       !.mash_efficiency = s.mash_efficiency,
       !.grain_bill = [i \in 1..Len(self.grain_bill) |->
                          <<self.grain_bill[i][1], s.ferms[i], self.grain_bill[i][3]>>],
       !.hop_bill = [i \in 1..Len(self.hop_bill) |->
                        <<self.hop_bill[i][1], s.ams[i], s.times[i]>>],
       !.df_yeast = IF Len(self.df_yeast) = 0
                    THEN <<[attenuation |-> s.yeast_atten]>>
                    ELSE [self.df_yeast EXCEPT ![1].attenuation = s.yeast_atten]]

\* lines 921-939 of update_recipe_from_sheet: g and h are what the store
\* returns for the bills
Requeried(self1, g, h, csv0) ==
    IF g.err # "ok"
    THEN [self |-> self1, err |-> g.err, trace |-> <<>>, csv |-> csv0]
    ELSE IF h.err # "ok"
    THEN [self |-> [self1 EXCEPT !.df_grain_bill = g.val], err |-> h.err,
          trace |-> <<>>, csv |-> csv0]
    ELSE build_recipe([self1 EXCEPT !.df_grain_bill = g.val,
                                    !.df_hop_bill = h.val], csv0)

Updated(self1, csv0) ==
    Requeried(self1, ReadRows(self1.grain_bill, FermentableTable),
              ReadRows(self1.hop_bill, HopTable), csv0)

\* update_recipe_from_sheet(sheet1, name): the cells are taken, the bills'
\* rows are read from the store again, and the recipe is built again
update_recipe_from_sheet(self, s, csv0) == Updated(TakeFromSheet(self, s), csv0)

(***************************************************************************)
(* The state: one notebook session.                                        *)
(***************************************************************************)
VARIABLES
    brew,         \* the BrewBuild object, None if its construction failed
    result,       \* the last call: [op, err, val]
    trace,        \* what the last build_recipe computed, in order
    csv,          \* the recipe file build_recipe writes
    sheet1,       \* the sheet interactive_sheet returned, None before
    pickle_file,  \* the dictionary pickle_build wrote, None before
    brew2,        \* the object build_from_pickle returned, None before
    edits         \* the number of values changed so far

vars == <<brew, result, trace, csv, sheet1, pickle_file, brew2, edits>>

\* the number of changes of a value (an attribute or a sheet cell) in a run
MaxEdits == 1

GrainBills ==
    { << <<1, Q(8), 0>>, <<3, Q(2), 1>> >>,
      << <<9, Q(8), 0>> >>,
      << >> }

HopBills ==
    { << <<1, Q(1), Q(60)>>, <<2, Q(1), Q(15)>> >>,
      << <<9, Q(1), Q(60)>> >>,
      << >> }

Yeasts == {1, 9}

Styles == {None, StyleId(1), StyleId(9)}

\* the value an edit gives an input: one the constructor did not
NewValue(name) ==
    CASE name = "target_volume" -> Q(0)
      [] name = "boil_volume" -> Q(7)
      [] name = "boil_time" -> Q(90)
      [] name = "mash_temp" -> Q(156)
      [] name = "mash_efficiency" -> Q(80)
      [] name = "mash_volume" -> Q(3)
      [] name = "yeast_atten" -> Q(80)
      [] name = "ferms" -> Q(10)
      [] name = "ams" -> Q(2)
      [] name = "times" -> Q(30)

Session(b, r) ==
    /\ brew = b
    /\ result = r
    /\ trace = <<>>
    /\ csv = NoCsv
    /\ sheet1 = None
    /\ pickle_file = None
    /\ brew2 = None
    /\ edits = 0

Constructed(r) == Session(r.val, [op |-> "BrewBuild", err |-> r.err, val |-> None])

\* the same, with the bills the constructor was given
ConstructedFrom(gb, hb, r) ==
    Session(r.val, [op |-> "BrewBuild", err |-> r.err, val |-> None,
                    args |-> [grain_bill |-> gb, hop_bill |-> hb]])

\* the arguments the store does not know, or that are empty
Faults(gb, hb, y, st) ==
    (IF gb = <<>> \/ \E i \in 1..Len(gb) : gb[i][1] \notin DOMAIN FermentableTable
     THEN 1 ELSE 0)
    + (IF hb = <<>> \/ \E i \in 1..Len(hb) : hb[i][1] \notin DOMAIN HopTable
       THEN 1 ELSE 0)
    + (IF y \notin DOMAIN YeastTable THEN 1 ELSE 0)
    + (IF st # None /\ st # StyleId(1) THEN 1 ELSE 0)

\* the most faulty arguments of one constructor call
MaxFaults == 1

\* brew = BrewBuild(grain_bill, hop_bill, yeast, 5, 6, 152, con, style=style,
\*                  mash_volume=4)
Init ==
    \E gb \in GrainBills, hb \in HopBills, y \in Yeasts, st \in Styles :
        /\ Faults(gb, hb, y, st) <= MaxFaults
        /\ ConstructedFrom(gb, hb, BrewBuild(gb, hb, y, Q(5), Q(6), Q(152), Q(60), Q(70),
                                             st, Q(4)))

\* c = [self, err, trace, csv] is how build_recipe ended
Built(op, c) ==
    /\ brew' = c.self
    /\ trace' = c.trace
    /\ csv' = c.csv
    /\ result' = [op |-> op, err |-> c.err, val |-> None]

\* brew.build_recipe(name)
BuildRecipe ==
    /\ brew # None
    /\ Built("build_recipe", build_recipe(brew, csv))
    /\ UNCHANGED <<sheet1, pickle_file, brew2, edits>>

CalcNames ==
    {"calc_OG", "calc_FG", "calc_color", "calc_BG", "calc_IBU", "calc_mash_grav",
     "calc_PB_grav"}

\* a calculation called with no argument: [err, val, self]
CallCalc(self, f) ==
    CASE f = "calc_OG" -> WithSelf(calc_OG(self, None, None, None), self)
      [] f = "calc_FG" -> calc_FG(self, None, None, None, None, None, None)
      [] f = "calc_color" -> WithSelf(calc_color(self, None, None), self)
      [] f = "calc_BG" -> WithSelf(calc_BG(self, None, None, None), self)
      [] f = "calc_IBU" ->
           WithSelf(calc_IBU(self, None, None, None, None, None, None), self)
      [] f = "calc_mash_grav" -> WithSelf(calc_mash_grav(self, None, None, None), self)
      [] f = "calc_PB_grav" -> WithSelf(calc_PB_grav(self, None, None, None), self)

\* r = [err, val, self] is how the call ended
Called(f, r) ==
    /\ brew' = r.self
    /\ result' = [op |-> f, err |-> r.err, val |-> r.val]

\* brew.calc_OG(), brew.calc_FG(), ...
Call(f) ==
    /\ brew # None
    /\ Called(f, CallCalc(brew, f))
    /\ UNCHANGED <<trace, csv, sheet1, pickle_file, brew2, edits>>

\* an input attribute assigned from the notebook: brew.target_volume = v,
\* brew.grain_bill[i][1] = v, brew.df_yeast.loc[0, 'attenuation'] = v, ...
SetAttr(self, name, i, v) ==
    CASE name = "ferms" -> [self EXCEPT !.grain_bill[i][2] = v]
      [] name = "ams" -> [self EXCEPT !.hop_bill[i][2] = v]
      [] name = "times" -> [self EXCEPT !.hop_bill[i][3] = v]
      [] name = "yeast_atten" -> [self EXCEPT !.df_yeast[1].attenuation = v]
      [] OTHER -> [self EXCEPT ![name] = v]

Rows(self, name) ==
    CASE name = "ferms" -> 1..Len(self.grain_bill)
      [] name \in {"ams", "times"} -> 1..Len(self.hop_bill)
      [] name = "yeast_atten" -> 1..Len(self.df_yeast)
      [] OTHER -> {1}

SetInput ==
    /\ brew # None
    /\ edits < MaxEdits
    /\ \E name \in EditableCells \cup {"ferms", "ams", "times"} :
         \E i \in Rows(brew, name) :
            /\ brew' = SetAttr(brew, name, i, NewValue(name))
            /\ brew' # brew
            /\ result' = [op |-> "setattr", err |-> "ok", val |-> None]
    /\ edits' = edits + 1
    /\ UNCHANGED <<trace, csv, sheet1, pickle_file, brew2>>

Shown(r) ==
    /\ sheet1' = IF r.err = "ok" THEN r.val ELSE sheet1
    /\ result' = [op |-> "interactive_sheet", err |-> r.err, val |-> None]

\* sheet1 = brew.interactive_sheet()
InteractiveSheet ==
    /\ brew # None
    /\ Shown(interactive_sheet(brew))
    /\ UNCHANGED <<brew, trace, csv, pickle_file, brew2, edits>>

\* r = [err, val |-> the sheet] is how the calculations set off ended
Typed(r) ==
    /\ sheet1' = Checked(brew, r.val)
    /\ sheet1' # sheet1
    /\ result' = [op |-> "edit", err |-> r.err, val |-> None]

\* the user types a value into a yellow cell of the sheet
Edit ==
    /\ sheet1 # None
    /\ edits < MaxEdits
    /\ \E name \in EditableCells \cup {"ferms", "ams", "times"} :
         \E i \in Rows(brew, name) :
            Typed(EditCell(brew, sheet1, name, i, NewValue(name)))
    /\ edits' = edits + 1
    /\ UNCHANGED <<brew, trace, csv, pickle_file, brew2>>

\* brew.update_recipe_from_sheet(sheet1, name)
UpdateRecipeFromSheet ==
    /\ brew # None
    /\ sheet1 # None
    /\ Built("update_recipe_from_sheet", update_recipe_from_sheet(brew, sheet1, csv))
    /\ UNCHANGED <<sheet1, pickle_file, brew2, edits>>

\* brew.pickle_build(name)
PickleBuild ==
    /\ brew # None
    /\ pickle_file = None
    /\ pickle_file' = pickle_build(brew)
    /\ result' = [op |-> "pickle_build", err |-> "ok", val |-> None]
    /\ UNCHANGED <<brew, trace, csv, sheet1, brew2, edits>>

Loaded(r) ==
    /\ brew2' = r.val
    /\ result' = [op |-> "build_from_pickle", err |-> r.err, val |-> None]

\* brew2 = build_from_pickle(name, con)
BuildFromPickle ==
    /\ pickle_file # None
    /\ brew2 = None
    /\ Loaded(build_from_pickle(pickle_file))
    /\ UNCHANGED <<brew, trace, csv, sheet1, pickle_file, edits>>

\* a session of building, editing in the sheet and pickling
Next ==
    \/ BuildRecipe
    \/ InteractiveSheet
    \/ Edit
    \/ UpdateRecipeFromSheet
    \/ PickleBuild
    \/ BuildFromPickle

Spec == Init /\ [][Next]_vars

\* brew.build_recipe(name), name in a directory that does not exist
BuildRecipeNoFile ==
    /\ brew # None
    /\ Built("build_recipe", build_recipe_no_file(brew, csv))
    /\ UNCHANGED <<sheet1, pickle_file, brew2, edits>>

\* a session of builds, some with an output file that cannot be written, of
\* sheets and of pickling
NextOrder ==
    \/ BuildRecipe
    \/ BuildRecipeNoFile
    \/ InteractiveSheet
    \/ PickleBuild
    \/ BuildFromPickle

SpecOrder == Init /\ [][NextOrder]_vars

\* a session of building, assigning attributes and calling the calculations
NextAttr ==
    \/ BuildRecipe
    \/ SetInput
    \/ \E f \in CalcNames : Call(f)

SpecAttr == Init /\ [][NextAttr]_vars

(***************************************************************************)
(* The calculations over a range of recipes: weights from 0, efficiencies  *)
(* from 0 to 100, volumes that are negative, zero and positive, the mash   *)
(* temperature of no adjustment (153.5) and a hot one, a yeast of high and *)
(* one of low attenuation.                                                 *)
(***************************************************************************)
Weights == {Q(0), Q(2), Q(8)}

Efficiencies == {Q(0), Q(50), Q(70), Q(100)}

Volumes == {Q(-5), Q(0), Q(5)}

BoilVolumes == {Q(0), Q(6)}

MashTemps == {Q(152), Q(170)}

MashVolumes == {Q(1), Q(4)}

CalcHopBill == << <<1, Q(1), Q(60)>>, <<2, Q(1), Q(15)>> >>

\* the inputs that are not those of the reference recipe: 8 lb of malt 1
\* mashed and 2 lb of extract 3, yeast 1, 5 gal from 6 gal boiled, mashed at
\* 152 F in 4 gal with efficiency 70
Varied(w1, w2, y, tv, bv, mt, eff, mv) ==
    (IF w1 # Q(8) THEN 1 ELSE 0) + (IF w2 # Q(2) THEN 1 ELSE 0)
    + (IF y # 1 THEN 1 ELSE 0) + (IF tv # Q(5) THEN 1 ELSE 0)
    + (IF bv # Q(6) THEN 1 ELSE 0) + (IF mt # Q(152) THEN 1 ELSE 0)
    + (IF eff # Q(70) THEN 1 ELSE 0) + (IF mv # Q(4) THEN 1 ELSE 0)

\* the most inputs of one recipe that differ from the reference recipe's
MaxVaried == 2

\* the recipe of one fermentable: 10 lb of malt 1 (yield 75) mashed, for 5 gal
\* at efficiency 70
ExampleBill == << <<1, Q(10), 0>> >>

InitCalc ==
    \/ \E w1 \in Weights, w2 \in Weights, y \in DOMAIN YeastTable, tv \in Volumes,
          bv \in BoilVolumes, mt \in MashTemps, eff \in Efficiencies,
          mv \in MashVolumes :
           /\ Varied(w1, w2, y, tv, bv, mt, eff, mv) <= MaxVaried
           /\ Constructed(BrewBuild(<< <<1, w1, 0>>, <<3, w2, 1>> >>, CalcHopBill, y,
                                    tv, bv, mt, Q(60), eff, None, mv))
    \/ \E mv \in MashVolumes :
          Constructed(BrewBuild(ExampleBill, CalcHopBill, 1, Q(5), Q(6), Q(152), Q(60),
                                Q(70), None, mv))

GUCalled(args, GU) ==
    result' = [op |-> "calc_GU", err |-> "ok", val |-> GU, args |-> args]

\* brew.calc_GU(amount, yield, mash_efficiency, type) on a row of the bill, as
\* calc_OG calls it
CallGU ==
    /\ brew # None
    /\ \E i \in 1..Len(brew.grain_bill) :
         GUCalled([grain_amounts |-> brew.grain_bill[i][2],
                   grain_yield |-> FermentableTable[brew.grain_bill[i][1]].yield,
                   mash_efficiency |-> brew.mash_efficiency,
                   grain_type |-> brew.grain_bill[i][3]],
                  calc_GU(brew.grain_bill[i][2],
                          FermentableTable[brew.grain_bill[i][1]].yield,
                          brew.mash_efficiency, brew.grain_bill[i][3], None, None))
    /\ UNCHANGED <<brew, trace, csv, sheet1, pickle_file, brew2, edits>>

\* the arguments of calc_GU for row i as the loop of calc_FG passes them
FermentedArgs(self, i) ==
    [grain_amounts |-> self.grain_bill[i][2],
     grain_yield |-> FermentableTable[self.grain_bill[i][1]].yield,
     mash_efficiency |-> self.mash_efficiency,
     grain_type |-> self.grain_bill[i][3],
     yeast_atten |-> self.df_yeast[1].attenuation,
     yeast_atten_adj |-> calc_AA(self, None, None).val]

GUAttenuatedCalled(a) ==
    result' = [op |-> "calc_GU_attenuated", err |-> "ok", args |-> a,
               val |-> calc_GU(a.grain_amounts, a.grain_yield, a.mash_efficiency,
                               a.grain_type, a.yeast_atten, a.yeast_atten_adj)]

\* brew.calc_GU(amount, yield, mash_efficiency, type, yeast_atten=attenuation,
\*              yeast_atten_adj=brew.calc_AA()) on a row of the bill, as calc_FG
\* calls it
CallGUAttenuated ==
    /\ brew # None
    /\ Len(brew.df_yeast) > 0
    /\ \E i \in 1..Len(brew.grain_bill) : GUAttenuatedCalled(FermentedArgs(brew, i))
    /\ UNCHANGED <<brew, trace, csv, sheet1, pickle_file, brew2, edits>>

\* calc_FG with the OG og handed to it, and the inputs og was computed from
FGofOG(self, og) ==
    IF og.err # "ok" THEN [err |-> og.err, val |-> None, OG |-> None]
    ELSE [err |-> "ok", OG |-> og.val,
          val |-> calc_FG(self, og.val, self.df_yeast[1].attenuation, self.mash_temp,
                          Column(self.grain_bill, 2), self.mash_efficiency,
                          self.target_volume).val]

FGCalled(r) == result' = [op |-> "calc_FG_of_OG", err |-> r.err, val |-> r.val, OG |-> r.OG]

\* brew.calc_FG(OG=brew.calc_OG(amounts, efficiency, volume), attenuation,
\*              mash_temp, amounts, efficiency, volume)
CallFGofOG ==
    /\ brew # None
    /\ Len(brew.df_yeast) > 0
    /\ FGCalled(FGofOG(brew, calc_OG(brew, Column(brew.grain_bill, 2),
                                     brew.mash_efficiency, brew.target_volume)))
    /\ UNCHANGED <<brew, trace, csv, sheet1, pickle_file, brew2, edits>>

NextCalc ==
    \/ \E f \in CalcNames : Call(f)
    \/ CallGU
    \/ CallGUAttenuated
    \/ CallFGofOG

SpecCalc == InitCalc /\ [][NextCalc]_vars

(***************************************************************************)
(* The properties.                                                         *)
(***************************************************************************)
\* calc_FG(OG=calc_OG(x), x) has returned, for a recipe x of positive target
\* volume (its weights, yields and base attenuation are never negative, its
\* efficiency is in 0..100)
FGofOGReturned ==
    /\ result.op = "calc_FG_of_OG"
    /\ result.err = "ok"
    /\ RGt(brew.target_volume, Q(0))

\* C1 as stated: for every such recipe, every mash temperature and every
\* non-negative base attenuation, calc_FG applied to OG = calc_OG of the same
\* inputs returns a value <= that OG
C1_FGNeverExceedsOG == FGofOGReturned => RLe(result.val, result.OG)

\* C1 amended: the same, for the mash temperatures at which the adjusted
\* attenuation yeast_atten - (mash_temp - 153.5) * 1.25 is not negative
C1_FGNeverExceedsOGWhenAttenuating ==
    (FGofOGReturned /\ RLe(Q(0), calc_AA(brew, None, None).val))
        => RLe(result.val, result.OG)

\* C1 witness: a recipe whose adjusted attenuation is positive, mashed hotter
\* than 153.5 F, and whose FG came out below its OG
C1_Witness ==
    /\ FGofOGReturned
    /\ RGt(calc_AA(brew, None, None).val, Q(0))
    /\ RGt(brew.mash_temp, <<307, 2>>)
    /\ RLt(result.val, result.OG)

\* C2 as stated: after any builds and changes to an input field, a no-argument
\* calc_FG() returns the FG computed from the OG of the current inputs, never
\* from an OG cached from earlier inputs
C2_FGFromCurrentInputs ==
    (result.op = "calc_FG" /\ result.err = "ok")
        => result.val = FGofOG(brew, calc_OG(brew, None, None, None)).val

\* how a build_recipe ended, c = [self, err, trace, csv]: the exception if any,
\* and OG, FG, IBU, color and ABV
BuildOutput(c) == <<c.err, c.self.OG, c.self.FG, c.self.IBU, c.self.color, c.self.ABV>>

\* the reloaded object r = [err, val] built
RebuiltOutput(r) ==
    IF r.err # "ok" THEN <<r.err>> ELSE BuildOutput(build_recipe(r.val, NoCsv))

\* C3 as stated: for any recipe state reached by construction, sheet edits
\* applied with update_recipe_from_sheet and builds, pickle_build followed by
\* build_from_pickle and build_recipe yields the same OG, FG, IBU, color and
\* ABV as build_recipe on the object that was pickled
C3_PickleRoundTrip ==
    result.op = "pickle_build"
        => RebuiltOutput(build_from_pickle(pickle_file))
             = BuildOutput(build_recipe(brew, NoCsv))

\* a is computed before b in the pass t
Before(t, a, b) ==
    \E i, j \in 1..Len(t) : i < j /\ t[i] = a /\ t[j] = b

IsPrefix(t, u) == Len(t) <= Len(u) /\ \A i \in 1..Len(t) : t[i] = u[i]

\* a recalculation pass has ended without an exception
Recomputed ==
    result.op \in {"build_recipe", "update_recipe_from_sheet"} /\ result.err = "ok"

\* C4 as stated: in one recalculation pass, boil gravity is computed first,
\* then mash gravity and post-boil gravity/volume, then OG, then adjusted
\* attenuation, then FG, then ABV
C4_StatedOrder ==
    Recomputed =>
        /\ trace[1] = "BG"
        /\ \A x \in {"MG", "PB", "PB_volume"} : Before(trace, "BG", x) /\ Before(trace, x, "OG")
        /\ Before(trace, "OG", "AA")
        /\ Before(trace, "AA", "FG")
        /\ Before(trace, "FG", "ABV")

\* the order in which a pass computes
ComputedOrder ==
    <<"OG", "AA", "FG", "color", "IBU", "ABV", "BG", "MG", "PB_volume", "PB">>

\* C4 amended: a recalculation pass computes OG first, then the adjusted
\* attenuation and FG, then color, IBU and ABV, then the boil gravity, then the
\* mash gravity, the post-boil volume and the post-boil gravity (a pass that
\* raises stops in this order); so FG and ABV are computed after the OG, PB
\* after the BG, and each from the value the pass computed from the current
\* inputs
C4_DependencyOrder ==
    /\ IsPrefix(trace, ComputedOrder)
    /\ Recomputed =>
         /\ trace = ComputedOrder
         /\ brew.OG = calc_OG(brew, None, None, None).val
         /\ brew.FG = FGofOG(brew, Ok(brew.OG)).val
         /\ brew.ABV = calc_ABV(brew.OG, brew.FG)
         /\ brew.BG = calc_BG(brew, None, None, None).val
         /\ brew.PB = calc_PB_grav(brew, brew.BG, brew.boil_volume, brew.boil_time).val

\* C4 witness: the pass that follows a change of an input in the sheet
C4_Witness ==
    /\ result.op = "update_recipe_from_sheet"
    /\ result.err = "ok"
    /\ edits > 0
    /\ trace = ComputedOrder

\* the derived values of the object
AllDerived(self) ==
    <<self.OG, self.FG, self.color, self.IBU, self.ABV, self.BG, self.MG, self.PB,
      self.PB_volume>>

\* how a call of build_recipe ended, c = [self, err, trace, csv]
AfterBuild(c) == <<c.err, AllDerived(c.self)>>

\* C5: build_recipe called again straight after a build_recipe that returned,
\* with no input changed in between, returns too and leaves OG, FG, color, IBU,
\* ABV, BG, MG, PB and PB_volume as they were after the first call
C5_BuildIdempotent ==
    (result.op = "build_recipe" /\ result.err = "ok")
        => AfterBuild(build_recipe(brew, csv)) = <<"ok", AllDerived(brew)>>

\* C5 witness: a build that returned, of inputs changed since the build before
C5_Witness ==
    /\ result.op = "build_recipe"
    /\ result.err = "ok"
    /\ edits > 0
    /\ brew.OG # None /\ brew.PB # None

\* the weight of the mash-role fermentables
MashWeight(self) ==
    LET n == Len(self.grain_bill)
        w[i \in 0..n] ==
            IF i = 0 THEN Q(0)
            ELSE IF self.grain_bill[i][3] = 0 THEN RAdd(w[i - 1], self.grain_bill[i][2])
            ELSE w[i - 1]
    IN  w[n]

\* the volume the calculation f divides by is zero or negative: the target
\* volume, the pre-boil volume, the post-boil volume or the mash volume less
\* the 0.125 gal / lb the grain absorbs
NonPositiveVolume(self, f) ==
    CASE f \in {"calc_OG", "calc_FG", "calc_color"} -> RLe(self.target_volume, Q(0))
      [] f = "calc_BG" -> RLe(self.boil_volume, Q(0))
      [] f = "calc_IBU" -> RLe(self.target_volume, Q(0)) \/ RLe(self.boil_volume, Q(0))
      [] f = "calc_mash_grav" ->
           RLe(RSub(self.mash_volume, RMul(<<1, 8>>, MashWeight(self))), Q(0))
      [] f = "calc_PB_grav" ->
           self.BG # None /\ RLe(calc_PB_volume(self, None, None), Q(0))

\* C6 as stated: when the volume a calculation divides by is zero or negative,
\* calc_OG, calc_FG, calc_color, calc_BG, calc_IBU, calc_mash_grav and
\* calc_PB_grav end in an InvalidInput error outcome and produce no numeric
\* (infinite, NaN or negative-gravity) result
C6_VolumeRejected ==
    (result.op \in CalcNames /\ NonPositiveVolume(brew, result.op))
        => result.err = "InvalidInput" /\ result.val = None

\* the recipe names an id the reference store does not hold
UnknownFermentable(self) ==
    \E i \in 1..Len(self.grain_bill) : self.grain_bill[i][1] \notin DOMAIN FermentableTable

UnknownHop(self) ==
    \E i \in 1..Len(self.hop_bill) : self.hop_bill[i][1] \notin DOMAIN HopTable

UnknownYeast(self) == self.yeast \notin DOMAIN YeastTable

\* C7 as stated: when a fermentable, hop or yeast id of the recipe is not in
\* the reference store, the lookup made when the recipe is constructed fails
\* (with NotFound), so that no object exists whose recipe names an unknown id
\* and no calculation runs on one
C7_LookupFails ==
    brew # None
        => ~(UnknownFermentable(brew) \/ UnknownHop(brew) \/ UnknownYeast(brew))

\* C7 amended: the lookup succeeds with an empty result (the constructor
\* raises only on an empty bill, the database's error) and the failure comes
\* later, in the calculations that read the missing row: an IndexError for a
\* fermentable or a hop, a KeyError for the yeast
C7_FailsInCalculation ==
    /\ brew = None => result.op = "BrewBuild" /\ result.err = "DatabaseError"
    /\ brew # None =>
         /\ (/\ UnknownFermentable(brew)
             /\ result.op \in {"calc_OG", "calc_FG", "calc_color", "calc_BG", "calc_IBU",
                               "calc_mash_grav", "build_recipe"})
               => result.err = "IndexError"
         /\ (/\ ~UnknownFermentable(brew)
             /\ UnknownHop(brew)
             /\ \/ result.op = "calc_IBU"
                \/ result.op = "build_recipe" /\ ~UnknownYeast(brew))
               => result.err = "IndexError"
         /\ (/\ ~UnknownFermentable(brew)
             /\ UnknownYeast(brew)
             /\ result.op \in {"calc_FG", "build_recipe"})
               => result.err = "KeyError"

\* C7 witness: an object constructed from an id the store does not hold, whose
\* calc_OG() then raised
C7_Witness ==
    /\ brew # None
    /\ UnknownFermentable(brew)
    /\ result.op = "calc_OG"
    /\ result.err = "IndexError"

\* the recipe has no style, or its style id has no row in the store
MissingStyle(self) == self.style = None \/ Len(self.df_style) = 0

\* every other id of the recipe is in the store and the target volume is
\* positive
SoundButStyle(self) ==
    /\ ~(UnknownFermentable(self) \/ UnknownHop(self) \/ UnknownYeast(self))
    /\ RGt(self.target_volume, Q(0))

\* C8 as stated: when the recipe has no style or its style id resolves to no
\* reference row, build_recipe and interactive_sheet (of a built recipe)
\* complete normally and produce no style ranges and no out-of-range flags
C8_MissingStyleNotAnError ==
    (brew # None /\ MissingStyle(brew) /\ SoundButStyle(brew)) =>
        /\ result.op = "build_recipe"
             => result.err = "ok" /\ csv.complete /\ csv.ranges = {} /\ csv.flags = {}
        /\ (result.op = "interactive_sheet" /\ brew.BG # None)
             => result.err = "ok" /\ sheet1 # None

\* C9 as stated: after update_recipe_from_sheet returns, each editable recipe
\* input (target volume, boil volume, boil time, mash temperature, mash
\* efficiency, mash water volume, every fermentable weight, every hop weight
\* and boil time, yeast attenuation) equals the value of its editable sheet
\* cell, and the rebuilt derived values are computed from exactly those values
C9_TakesEveryUpdate ==
    (result.op = "update_recipe_from_sheet" /\ result.err = "ok") =>
        /\ brew.target_volume = sheet1.target_volume
        /\ brew.boil_volume = sheet1.boil_volume
        /\ brew.boil_time = sheet1.boil_time
        /\ brew.mash_temp = sheet1.mash_temp
        /\ brew.mash_efficiency = sheet1.mash_efficiency
        /\ brew.mash_volume = sheet1.mash_volume
        /\ Column(brew.grain_bill, 2) = sheet1.ferms
        /\ Column(brew.hop_bill, 2) = sheet1.ams
        /\ Column(brew.hop_bill, 3) = sheet1.times
        /\ brew.df_yeast[1].attenuation = sheet1.yeast_atten
        /\ brew.OG = sheet1.OG /\ brew.FG = sheet1.FG /\ brew.ABV = sheet1.ABV
        /\ brew.MG = sheet1.mash_grav

\* calc_GU without attenuation on the arguments a, at efficiency e
GUAt(a, e) == calc_GU(a.grain_amounts, a.grain_yield, e, a.grain_type, None, None)

\* C10: without attenuation, the gravity units of a mash-role fermentable
\* (role 0) at efficiency e are e/100 times those at efficiency 100, and 0 at
\* efficiency 0; those of an extract-role fermentable are the same at every
\* efficiency
C10_EfficiencyRule ==
    result.op = "calc_GU" =>
        IF result.args.grain_type = 0
        THEN /\ result.val = RMul(RDiv(result.args.mash_efficiency, Q(100)),
                                  GUAt(result.args, Q(100)))
             /\ result.args.mash_efficiency = Q(0) => result.val = Q(0)
        ELSE \A e \in Efficiencies : GUAt(result.args, e) = result.val

\* C10 witness: calc_GU of a mashed fermentable at an efficiency below 100 has
\* returned less than it does at 100
C10_Witness ==
    /\ result.op = "calc_GU"
    /\ result.args.grain_type = 0
    /\ RLt(result.args.mash_efficiency, Q(100))
    /\ RLt(result.val, GUAt(result.args, Q(100)))

\* the gravity units of row i of the bill, as calc_GU gives them without
\* attenuation
RowGU(self, i) ==
    calc_GU(self.grain_bill[i][2], FermentableTable[self.grain_bill[i][1]].yield,
            self.mash_efficiency, self.grain_bill[i][3], None, None)

\* the sum of the rows' gravity units
TotalGU(self) ==
    LET n == Len(self.grain_bill)
        s[i \in 0..n] == IF i = 0 THEN Q(0) ELSE RAdd(s[i - 1], RowGU(self, i))
    IN  s[n]

\* the recipe is the one of ExampleBill
IsExample(self) ==
    /\ self.grain_bill = ExampleBill
    /\ self.mash_efficiency = Q(70)
    /\ self.target_volume = Q(5)

\* C11: calc_OG returns 1 + (the sum over all fermentables of their calc_GU
\* contribution) / target_volume / 1000, rounded to 3 decimals; for the single
\* mashed fermentable of 10 lb with yield 75 at efficiency 70 and 5 gal,
\* calc_GU gives 241.5, that is 48.3 gravity units per gallon, and the OG is
\* 1.048
C11_OGFormula ==
    /\ (result.op = "calc_OG" /\ result.err = "ok")
         => result.val = Round(RAdd(Q(1), RDiv(RDiv(TotalGU(brew), brew.target_volume),
                                               Q(1000))), 3)
    /\ (result.op = "calc_GU" /\ IsExample(brew))
         => /\ result.val = <<483, 2>>
            /\ RDiv(result.val, brew.target_volume) = <<483, 10>>
    /\ (result.op = "calc_OG" /\ IsExample(brew))
         => result.err = "ok" /\ result.val = Norm(1048, 1000)

\* C11 witness: calc_OG() of the example recipe has returned 1.048
C11_Witness ==
    /\ result.op = "calc_OG"
    /\ IsExample(brew)
    /\ result.val = Norm(1048, 1000)

\* the attenuation the mash temperature leaves: base - (mash_temp - 153.5) * 1.25
AdjustedAttenuation(self) ==
    RSub(self.df_yeast[1].attenuation,
         RMul(RSub(self.mash_temp, <<307, 2>>), <<5, 4>>))

\* the gravity units of row i that ferment: weight * yield / 100 * 46, scaled
\* by efficiency and adjusted attenuation for a mash-role row and by the base
\* attenuation only for an extract-role row
RowFermented(self, i) ==
    LET base == RMul(RMul(self.grain_bill[i][2],
                          RDiv(FermentableTable[self.grain_bill[i][1]].yield, Q(100))),
                     Q(46))
    IN  IF self.grain_bill[i][3] = 0
        THEN RMul(RMul(base, RDiv(self.mash_efficiency, Q(100))),
                  RDiv(AdjustedAttenuation(self), Q(100)))
        ELSE RMul(base, RDiv(self.df_yeast[1].attenuation, Q(100)))

TotalFermented(self) ==
    LET n == Len(self.grain_bill)
        s[i \in 0..n] == IF i = 0 THEN Q(0) ELSE RAdd(s[i - 1], RowFermented(self, i))
    IN  s[n]

\* 1 + FG_GU / 1000 rounded to 3 decimals, FG_GU the gravity units of og less
\* the fermented ones per volume
StatedFG(self, og) ==
    Round(RAdd(Q(1),
               RDiv(RSub(RMul(RSub(og, Q(1)), Q(1000)),
                         RDiv(TotalFermented(self), self.target_volume)),
                    Q(1000))), 3)

\* C12: calc_FG computes the FG gravity units as the OG gravity units minus
\* the sum of the fermented contributions divided by the target volume, a
\* mash-role fermentable scaled by efficiency and the adjusted attenuation
\* base - (mash_temp - 153.5) * 1.25, an extract-role one by the base
\* attenuation only, and returns 1 + FG_GU / 1000 rounded to 3 decimals
C12_FGFormula ==
    /\ (result.op = "calc_FG_of_OG" /\ result.err = "ok")
         => result.val = StatedFG(brew, result.OG)
    /\ (result.op = "calc_FG" /\ result.err = "ok")
         => result.val = StatedFG(brew, brew.OG)

\* C12 witness: calc_FG has returned for a recipe with a mashed and an extract
\* fermentable, mashed away from 153.5 F, and the FG is below the OG
C12_Witness ==
    /\ result.op = "calc_FG_of_OG"
    /\ result.err = "ok"
    /\ Len(brew.grain_bill) = 2
    /\ RGt(brew.grain_bill[1][2], Q(0)) /\ brew.grain_bill[1][3] = 0
    /\ RGt(brew.grain_bill[2][2], Q(0)) /\ brew.grain_bill[2][3] = 1
    /\ brew.mash_temp # <<307, 2>>
    /\ IsNum(result.val)
    /\ RLt(result.val, result.OG)

\* the gravity units of the arguments a before any scaling: weight * yield / 100 * 46
Potential(a) == RMul(RMul(a.grain_amounts, RDiv(a.grain_yield, Q(100))), Q(46))

\* C13 as stated: when an attenuation adjustment is supplied to calc_GU, the
\* contribution of an extract-role fermentable is scaled by (adjusted
\* attenuation / 100), and that of a mash-role fermentable by (adjusted
\* attenuation / 100) together with efficiency
C13_ScaledByAdjusted ==
    result.op = "calc_GU_attenuated" =>
        IF result.args.grain_type = 0
        THEN result.val = RMul(RMul(Potential(result.args),
                                    RDiv(result.args.mash_efficiency, Q(100))),
                               RDiv(result.args.yeast_atten_adj, Q(100)))
        ELSE result.val = RMul(Potential(result.args),
                               RDiv(result.args.yeast_atten_adj, Q(100)))

\* C13 amended: when an attenuation adjustment is supplied to calc_GU, the
\* contribution of an extract-role fermentable is scaled by (base attenuation
\* / 100), whatever the adjustment, and that of a mash-role fermentable by
\* (adjusted attenuation / 100) together with efficiency
C13_ExtractScaledByBase ==
    result.op = "calc_GU_attenuated" =>
        IF result.args.grain_type = 0
        THEN result.val = RMul(RMul(Potential(result.args),
                                    RDiv(result.args.mash_efficiency, Q(100))),
                               RDiv(result.args.yeast_atten_adj, Q(100)))
        ELSE result.val = RMul(Potential(result.args),
                               RDiv(result.args.yeast_atten, Q(100)))

\* C13 witness: calc_GU with an adjustment that differs from the base
\* attenuation has returned, for an extract of positive weight, the
\* contribution scaled by the base attenuation
C13_Witness ==
    /\ result.op = "calc_GU_attenuated"
    /\ result.args.grain_type = 1
    /\ RGt(result.args.grain_amounts, Q(0))
    /\ result.args.yeast_atten_adj # result.args.yeast_atten
    /\ result.val = RMul(Potential(result.args), RDiv(result.args.yeast_atten, Q(100)))
    /\ result.val # RMul(Potential(result.args), RDiv(result.args.yeast_atten_adj, Q(100)))

\* C14 as stated: a recipe constructed with an empty hop bill yields IBU = 0
\* from calc_IBU, and a recipe constructed with an empty grain bill yields
\* OG = 1.000 from calc_OG and color = 0 from calc_color, in each case as a
\* normal result of constructing the recipe and running the calculation
C14_EmptyBills ==
    /\ (/\ result.op = "BrewBuild"
        /\ result.args.hop_bill = <<>> \/ result.args.grain_bill = <<>>)
         => result.err = "ok" /\ brew # None
    /\ (brew # None /\ brew.hop_bill = <<>> /\ result.op = "calc_IBU")
         => result.err = "ok" /\ result.val = Q(0)
    /\ (brew # None /\ brew.grain_bill = <<>> /\ result.op = "calc_OG")
         => result.err = "ok" /\ result.val = Q(1)
    /\ (brew # None /\ brew.grain_bill = <<>> /\ result.op = "calc_color")
         => result.err = "ok" /\ result.val = Q(0)

\* the value of the metric m of the object, and the style's bounds for it
MetricValue(self, m) ==
    CASE m = "OG" -> self.OG [] m = "FG" -> self.FG [] m = "IBU" -> self.IBU
      [] m = "color" -> self.color [] m = "ABV" -> self.ABV

StyleMin(st, m) ==
    CASE m = "OG" -> st.og_min [] m = "FG" -> st.fg_min [] m = "IBU" -> st.ibu_min
      [] m = "color" -> st.color_min [] m = "ABV" -> st.abv_min

StyleMax(st, m) ==
    CASE m = "OG" -> st.og_max [] m = "FG" -> st.fg_max [] m = "IBU" -> st.ibu_max
      [] m = "color" -> st.color_max [] m = "ABV" -> st.abv_max

\* C15: when style bounds are supplied, build_recipe marks a metric (OG, FG,
\* IBU, color, ABV) with the flag 'X' exactly when its computed value is
\* strictly below the style minimum or strictly above the style maximum; a
\* value equal to either bound is not flagged, and no metric is flagged when no
\* style is supplied
C15_FlagsExactlyOutOfRange ==
    Recomputed =>
        IF brew.style = None THEN csv.flags = {}
        ELSE \A m \in Metrics :
               /\ m \in csv.flags
                    <=> \/ RLt(MetricValue(brew, m), StyleMin(brew.df_style[1], m))
                        \/ RGt(MetricValue(brew, m), StyleMax(brew.df_style[1], m))
               /\ MetricValue(brew, m) \in {StyleMin(brew.df_style[1], m),
                                            StyleMax(brew.df_style[1], m)}
                    => m \notin csv.flags

\* C15 witness: a recipe with a style has been rebuilt, its OG is on the
\* style's maximum and not flagged, its FG is below the minimum and flagged
C15_Witness ==
    /\ Recomputed
    /\ brew.style # None
    /\ brew.OG = brew.df_style[1].og_max /\ "OG" \notin csv.flags
    /\ RLt(brew.FG, brew.df_style[1].fg_min) /\ "FG" \in csv.flags

\* the cell a calculation fills in the sheet
CellOf(f) ==
    CASE f = "calc_OG" -> "OG" [] f = "calc_FG" -> "FG" [] f = "calc_color" -> "color"
      [] f = "calc_BG" -> "BG" [] f = "calc_IBU" -> "IBU"
      [] f = "calc_mash_grav" -> "mash_grav" [] f = "calc_PB_grav" -> "PB_grav"

\* cells holding the recipe's own fields
OwnCells(self) == [FirstCells(self) EXCEPT !.BG = self.BG]

\* the calculation f called with explicit arguments equal to the recipe's own
\* fields, sliced from the positional list as the sheet's callback slices them
Parameterised(self, f) == Callback(self, CellOf(f), CellArgs(OwnCells(self), CellOf(f)))

\* C16: in every recipe state, calc_OG, calc_FG, calc_color, calc_BG,
\* calc_IBU, calc_mash_grav and calc_PB_grav called with explicit arguments
\* equal to the recipe's own fields, sliced from the positional argument list
\* as the interactive sheet's callbacks slice them (hop amounts, then hop
\* times, then fermentable weights, then the trailing scalars), return the same
\* values as the no-argument calls that build_recipe uses: whatever a
\* no-argument call has just returned or raised, the call with the explicit
\* arguments returns or raises too
C16_PathsAgree ==
    (result.op \in CalcNames /\ Len(brew.df_yeast) > 0) =>
        Returned(Parameterised(brew, result.op)) = [err |-> result.err, val |-> result.val]

\* C16 witness: calc_IBU() has returned a positive bitterness for a built
\* recipe whose hop amounts differ from its hop times, and the call with the
\* sliced arguments returns the same
C16_Witness ==
    /\ result.op = "calc_IBU"
    /\ result.err = "ok"
    /\ IsNum(result.val) /\ RGt(result.val, Q(0))
    /\ brew.BG # None
    /\ Column(brew.hop_bill, 2) # Column(brew.hop_bill, 3)
    /\ Parameterised(brew, "calc_IBU") = Ok(result.val)

\* the calculations set off by an edit have run to completion
CascadeDone == result.op = "edit" /\ result.err = "ok"

WellFormed(self) ==
    /\ \A i \in 1..Len(self.grain_bill) :
         /\ RLe(Q(0), self.grain_bill[i][2])
         /\ RLe(Q(0), FermentableTable[self.grain_bill[i][1]].yield)
    /\ RLe(Q(0), self.mash_efficiency)
    /\ RGt(self.target_volume, Q(0))
    /\ RGt(self.boil_volume, Q(0))
    /\ RGt(self.mash_volume, Q(0))

\* C18 as stated: for every recipe whose fermentable weights, yields and
\* efficiency are non-negative and whose target, pre-boil and mash volumes are
\* positive, every gravity the calculator produces (OG from calc_OG, BG from
\* calc_BG, mash gravity from calc_mash_grav) is at least 1.000
C18_GravitiesAtLeastOne ==
    (/\ result.op \in {"calc_OG", "calc_BG", "calc_mash_grav"}
     /\ result.err = "ok"
     /\ WellFormed(brew))
        => RLe(Q(1), result.val)

\* the ids of the fermentables and of the first hop are in the store and no
\* fermentable row overflows: interactive_sheet gets as far as the IBU of the
\* first hop
ReachesHopIBU(self) ==
    /\ RowsError(self, 1) = "ok"
    /\ self.hop_bill[1][1] \in DOMAIN HopTable

\* interactive_sheet on the object self ended as r: with an exception, the
\* TypeError of the per-hop IBU computation when it got that far
FailsAtHopIBU(self, r) ==
    /\ r.err # "ok"
    /\ ReachesHopIBU(self) => r.err = "TypeError"

\* C19 as stated: whenever interactive_sheet completes for a recipe with a
\* non-empty hop bill, a build_recipe call on the same object completed
\* earlier (self.PB is assigned by the last statement of build_recipe that
\* assigns, and by nothing else); on a freshly constructed or freshly unpickled
\* recipe (BG still None) interactive_sheet fails in the per-hop IBU
\* computation (the TypeError of BG - 1) instead of returning a sheet
C19_BuildCompletedBeforeSheet ==
    /\ (result.op = "interactive_sheet" /\ result.err = "ok" /\ brew.hop_bill # <<>>)
         => brew.PB # None
    /\ (result.op = "interactive_sheet" /\ brew.BG = None)
         => result.err = "TypeError" /\ sheet1 = None
    /\ brew2 # None => interactive_sheet(brew2).err = "TypeError"

\* C19 amended: whenever interactive_sheet completes for a recipe with a
\* non-empty hop bill, a build_recipe call on the same object ran earlier as
\* far as assigning the boil gravity (self.BG, line 566); the call need not
\* have completed, and after one that failed to open its output file
\* interactive_sheet completes on a sound recipe with a style.  On a freshly
\* constructed or freshly unpickled recipe (BG still None) interactive_sheet
\* raises instead of returning a sheet: in the per-hop IBU computation, or
\* before it when a fermentable row or the lookup of the first hop raises
C19_BoilGravityBeforeSheet ==
    /\ (result.op = "interactive_sheet" /\ result.err = "ok" /\ brew.hop_bill # <<>>)
         => brew.BG # None
    /\ (/\ result.op = "interactive_sheet"
        /\ brew.BG # None
        /\ SoundButStyle(brew) /\ ~MissingStyle(brew))
         => result.err = "ok" /\ sheet1 # None
    /\ (result.op = "interactive_sheet" /\ brew.BG = None)
         => /\ result.err # "ok" /\ sheet1 = None
            /\ ReachesHopIBU(brew) => result.err = "TypeError"
    /\ brew2 # None => FailsAtHopIBU(brew2, interactive_sheet(brew2))

\* C19 witness: interactive_sheet has returned a sheet for a recipe whose only
\* build_recipe call failed to open its output file
C19_Witness ==
    /\ result.op = "interactive_sheet"
    /\ result.err = "ok"
    /\ sheet1 # None
    /\ brew.BG # None
    /\ brew.PB = None

\* what identifies the recipe: the number and order of the entries of the
\* bills, the id and role of every fermentable, the id of every hop, the yeast
\* id and the style id
Identity(self) ==
    [fermentables |-> Column(self.grain_bill, 1), roles |-> Column(self.grain_bill, 3),
     hops |-> Column(self.hop_bill, 1), yeast |-> self.yeast, style |-> self.style]

\* C20: update_recipe_from_sheet, whatever the sheet holds and whether it
\* returns or raises, leaves unchanged the number and order of grain-bill and
\* hop-bill entries, every fermentable id and role flag, every hop id, the
\* yeast id and the style id; only weights, hop times, the scalar recipe
\* parameters, the yeast attenuation and the derived values may change
C20_UpdateFrame ==
    [][result'.op = "update_recipe_from_sheet" => Identity(brew') = Identity(brew)]_vars

\* C20 witness: update_recipe_from_sheet has taken an edited weight of the
\* first fermentable from the sheet
C20_Witness ==
    /\ result.op = "update_recipe_from_sheet"
    /\ edits > 0
    /\ brew.grain_bill[1][2] = NewValue("ferms")
    /\ brew.grain_bill[1][1] = 1
====
